---- MODULE Spec2Model ----
(***************************************************************************)
(* Dual-mesh construction of polyglot (create_dual_mesh.c).                *)
(*                                                                         *)
(* create_dual_mesh_from_tet_mesh is one sequential pass over a primal     *)
(* tetrahedral mesh.  The model follows the pass phase by phase: tag       *)
(* classification, edge/node incidence, entity counts, dual vertices, one  *)
(* step per primal edge of the dual-face loop, one step per node of the    *)
(* closure loop, dual cells, and the final compaction.  Indices are the    *)
(* 0-based indices of the C code; a C array a[i] is the TLA+ sequence      *)
(* entry a[i+1].                                                           *)
(***************************************************************************)
EXTENDS Integers, Sequences, FiniteSets, TLC

(***************************************************************************)
(* Generic helpers.                                                        *)
(***************************************************************************)
Range(s) == {s[i] : i \in DOMAIN s}

MinOf(S) == CHOOSE x \in S : \A y \in S : x <= y

MaxOf(S) == CHOOSE x \in S : \A y \in S : x >= y

\* The orders in which the elements of a finite set can be enumerated.
Orderings(S) == {s \in [1..Cardinality(S) -> S] : Range(s) = S}

\* The permutations of the local positions 0..n-1, as sequences.
Permutations0(n) == Orderings(0..(n-1))

RECURSIVE Flatten(_)
Flatten(ss) == IF ss = <<>> THEN <<>> ELSE Head(ss) \o Flatten(Tail(ss))

(***************************************************************************)
(* The primal mesh (mesh_t* tet_mesh) with its tag tables: the fixtures    *)
(* the runs are drawn from.  The faces of a fixture are the 3-subsets of   *)
(* its tetrahedra and the edges their 2-subsets, both numbered in          *)
(* lexicographic order; face_cells holds -1 in the second slot of a        *)
(* boundary face.  In every fixture face 0 = {0,1,2}, face 1 = {0,1,3},    *)
(* edge 0 = {0,1}, edge 2 = {0,3}; the tags are                            *)
(*   faces: outer (the two outer faces on edge 0), first (face 0),         *)
(*          shared (face 1), none, and in TetFan3 also wing;               *)
(*   edges: axis (edge 0), rim (edges 2 and 0, in that order), none;       *)
(*   nodes: apex (node 2), hub (node 0), none.                             *)
(***************************************************************************)
\* One tetrahedron {0,1,2,3}.
SingleTet ==
  [num_nodes  |-> 4,
   num_edges  |-> 6,
   num_faces  |-> 4,
   num_cells  |-> 1,
   cell_nodes |-> <<{0, 1, 2, 3}>>,
   edge_nodes |-> <<<<0, 1>>, <<0, 2>>, <<0, 3>>, <<1, 2>>, <<1, 3>>,
                    <<2, 3>>>>,
   face_nodes |-> <<{0, 1, 2}, {0, 1, 3}, {0, 2, 3}, {1, 2, 3}>>,
   face_edges |-> <<{0, 1, 3}, {0, 2, 4}, {1, 2, 5}, {3, 4, 5}>>,
   face_cells |-> <<<<0, -1>>, <<0, -1>>, <<0, -1>>, <<0, -1>>>>,
   cell_faces |-> <<{0, 1, 2, 3}>>,
   face_tags  |-> [outer |-> <<0, 1>>, first |-> <<0>>,
                   shared |-> <<1>>, none |-> <<>>],
   edge_tags  |-> [axis |-> <<0>>, rim |-> <<2, 0>>, none |-> <<>>],
   node_tags  |-> [apex |-> <<2>>, hub |-> <<0>>, none |-> <<>>]]

\* Two tetrahedra {0,1,2,3} and {0,1,3,4} sharing face 1 = {0,1,3}.
TetPair ==
  [num_nodes  |-> 5,
   num_edges  |-> 9,
   num_faces  |-> 7,
   num_cells  |-> 2,
   cell_nodes |-> <<{0, 1, 2, 3}, {0, 1, 3, 4}>>,
   edge_nodes |-> <<<<0, 1>>, <<0, 2>>, <<0, 3>>, <<0, 4>>, <<1, 2>>,
                    <<1, 3>>, <<1, 4>>, <<2, 3>>, <<3, 4>>>>,
   face_nodes |-> <<{0, 1, 2}, {0, 1, 3}, {0, 1, 4}, {0, 2, 3}, {0, 3, 4},
                    {1, 2, 3}, {1, 3, 4}>>,
   face_edges |-> <<{0, 1, 4}, {0, 2, 5}, {0, 3, 6}, {1, 2, 7}, {2, 3, 8},
                    {4, 5, 7}, {5, 6, 8}>>,
   face_cells |-> <<<<0, -1>>, <<0, 1>>, <<1, -1>>, <<0, -1>>, <<1, -1>>,
                    <<0, -1>>, <<1, -1>>>>,
   cell_faces |-> <<{0, 1, 3, 5}, {1, 2, 4, 6}>>,
   face_tags  |-> [outer |-> <<0, 2>>, first |-> <<0>>,
                   shared |-> <<1>>, none |-> <<>>],
   edge_tags  |-> [axis |-> <<0>>, rim |-> <<2, 0>>, none |-> <<>>],
   node_tags  |-> [apex |-> <<2>>, hub |-> <<0>>, none |-> <<>>]]

\* Three tetrahedra {0,1,2,3}, {0,1,3,4}, {0,1,4,5} around edge 0 = {0,1}:
\* faces 0 and 3 are the outer faces holding the edge, faces 1 and 2 lie between
\* two tetrahedra.  The tag wing holds the boundary faces 5 = {0,3,4} and
\* 6 = {0,4,5} of tetrahedra 1 and 2, which meet in edge 3 = {0,4}.
TetFan3 ==
  [num_nodes  |-> 6,
   num_edges  |-> 12,
   num_faces  |-> 10,
   num_cells  |-> 3,
   cell_nodes |-> <<{0, 1, 2, 3}, {0, 1, 3, 4}, {0, 1, 4, 5}>>,
   edge_nodes |-> <<<<0, 1>>, <<0, 2>>, <<0, 3>>, <<0, 4>>, <<0, 5>>,
                    <<1, 2>>, <<1, 3>>, <<1, 4>>, <<1, 5>>, <<2, 3>>,
                    <<3, 4>>, <<4, 5>>>>,
   face_nodes |-> <<{0, 1, 2}, {0, 1, 3}, {0, 1, 4}, {0, 1, 5}, {0, 2, 3},
                    {0, 3, 4}, {0, 4, 5}, {1, 2, 3}, {1, 3, 4}, {1, 4, 5}>>,
   face_edges |-> <<{0, 1, 5}, {0, 2, 6}, {0, 3, 7}, {0, 4, 8}, {1, 2, 9},
                    {2, 3, 10}, {3, 4, 11}, {5, 6, 9}, {6, 7, 10},
                    {7, 8, 11}>>,
   face_cells |-> <<<<0, -1>>, <<0, 1>>, <<1, 2>>, <<2, -1>>, <<0, -1>>,
                    <<1, -1>>, <<2, -1>>, <<0, -1>>, <<1, -1>>, <<2, -1>>>>,
   cell_faces |-> <<{0, 1, 4, 7}, {1, 2, 5, 8}, {2, 3, 6, 9}>>,
   face_tags  |-> [outer |-> <<0, 3>>, first |-> <<0>>,
                   shared |-> <<1>>, wing |-> <<5, 6>>, none |-> <<>>],
   edge_tags  |-> [axis |-> <<0>>, rim |-> <<2, 0>>, none |-> <<>>],
   node_tags  |-> [apex |-> <<2>>, hub |-> <<0>>, none |-> <<>>]]

\* Four tetrahedra {0,1,2,3}, ..., {0,1,5,6} around edge 0: faces 0 and 4 are
\* the outer faces holding the edge, faces 1, 2 and 3 are shared.  Its tag tables hold
\* the tags outer, axis, hub and none only.
TetFan4 ==
  [num_nodes  |-> 7,
   num_edges  |-> 15,
   num_faces  |-> 13,
   num_cells  |-> 4,
   cell_nodes |-> <<{0, 1, 2, 3}, {0, 1, 3, 4}, {0, 1, 4, 5}, {0, 1, 5, 6}>>,
   edge_nodes |-> <<<<0, 1>>, <<0, 2>>, <<0, 3>>, <<0, 4>>, <<0, 5>>,
                    <<0, 6>>, <<1, 2>>, <<1, 3>>, <<1, 4>>, <<1, 5>>,
                    <<1, 6>>, <<2, 3>>, <<3, 4>>, <<4, 5>>, <<5, 6>>>>,
   face_nodes |-> <<{0, 1, 2}, {0, 1, 3}, {0, 1, 4}, {0, 1, 5}, {0, 1, 6},
                    {0, 2, 3}, {0, 3, 4}, {0, 4, 5}, {0, 5, 6}, {1, 2, 3},
                    {1, 3, 4}, {1, 4, 5}, {1, 5, 6}>>,
   face_edges |-> <<{0, 1, 6}, {0, 2, 7}, {0, 3, 8}, {0, 4, 9}, {0, 5, 10},
                    {1, 2, 11}, {2, 3, 12}, {3, 4, 13}, {4, 5, 14},
                    {6, 7, 11}, {7, 8, 12}, {8, 9, 13}, {9, 10, 14}>>,
   face_cells |-> <<<<0, -1>>, <<0, 1>>, <<1, 2>>, <<2, 3>>, <<3, -1>>,
                    <<0, -1>>, <<1, -1>>, <<2, -1>>, <<3, -1>>, <<0, -1>>,
                    <<1, -1>>, <<2, -1>>, <<3, -1>>>>,
   cell_faces |-> <<{0, 1, 5, 9}, {1, 2, 6, 10}, {2, 3, 7, 11},
                    {3, 4, 8, 12}>>,
   face_tags  |-> [outer |-> <<0, 4>>],
   edge_tags  |-> [axis |-> <<0>>, none |-> <<>>],
   node_tags  |-> [hub |-> <<0>>, none |-> <<>>]]

\* One tetrahedron {0,1,2,3} split at the interior node 4 into the four
\* tetrahedra {0,1,2,4}, {0,1,3,4}, {0,2,3,4}, {1,2,3,4}.  The tag exterior
\* holds the exterior face 0 = {0,1,2} and is the only face tag; the only edge
\* and node tag is none.
StellatedTet ==
  [num_nodes  |-> 5,
   num_edges  |-> 10,
   num_faces  |-> 10,
   num_cells  |-> 4,
   cell_nodes |-> <<{0, 1, 2, 4}, {0, 1, 3, 4}, {0, 2, 3, 4}, {1, 2, 3, 4}>>,
   edge_nodes |-> <<<<0, 1>>, <<0, 2>>, <<0, 3>>, <<0, 4>>, <<1, 2>>,
                    <<1, 3>>, <<1, 4>>, <<2, 3>>, <<2, 4>>, <<3, 4>>>>,
   face_nodes |-> <<{0, 1, 2}, {0, 1, 3}, {0, 1, 4}, {0, 2, 3}, {0, 2, 4},
                    {0, 3, 4}, {1, 2, 3}, {1, 2, 4}, {1, 3, 4}, {2, 3, 4}>>,
   face_edges |-> <<{0, 1, 4}, {0, 2, 5}, {0, 3, 6}, {1, 2, 7}, {1, 3, 8},
                    {2, 3, 9}, {4, 5, 7}, {4, 6, 8}, {5, 6, 9}, {7, 8, 9}>>,
   face_cells |-> <<<<0, -1>>, <<1, -1>>, <<0, 1>>, <<2, -1>>, <<0, 2>>,
                    <<1, 2>>, <<3, -1>>, <<0, 3>>, <<1, 3>>, <<2, 3>>>>,
   cell_faces |-> <<{0, 2, 4, 7}, {1, 2, 5, 8}, {3, 4, 5, 9}, {6, 7, 8, 9}>>,
   face_tags  |-> [exterior |-> <<0>>],
   edge_tags  |-> [none |-> <<>>],
   node_tags  |-> [none |-> <<>>]]

\* The fixtures every tagging is tried on, and StellatedTet after them.
FanMeshes == <<SingleTet, TetPair, TetFan3, TetFan4>>

Meshes == FanMeshes \o <<StellatedTet>>

(***************************************************************************)
(* State.  The inputs are the arguments of create_dual_mesh and the build  *)
(* (ASSERT is compiled out when NDEBUG is defined); the remaining          *)
(* variables are the locals of create_dual_mesh_from_tet_mesh and the      *)
(* arrays of the dual mesh.                                                *)
(***************************************************************************)
VARIABLES
  tet_mesh,                   \* which fixture is the primal mesh
  external_model_face_tags,   \* tag names, in argument order
  internal_model_face_tags,
  model_edge_tags,
  model_vertex_tags,
  ndebug,                     \* TRUE: release build, ASSERT expands to nothing
  pc,                         \* position in the routine
  external_boundary_tets,
  external_model_faces,
  external_model_face_edges,
  model_face_nodes,
  internal_boundary_tets,
  internal_model_faces,
  internal_model_face_edges,
  model_edges,
  model_edge_nodes,
  model_vertices,
  primal_cells_for_edge,      \* edge+1 -> set of cells ({} is the NULL pointer)
  primal_faces_for_edge,
  primal_boundary_faces_for_node,
  num_dual_nodes,
  num_dual_faces,
  num_dual_cells,
  dv_offset,
  dual_nodes,                 \* dual node i is dual_nodes[i+1]
  dual_node_for_model_face,   \* map: primal face -> dual node
  dual_node_for_edge,         \* map: key -> dual node
  edge,                       \* the edge loop's counter
  df_offset,
  face_node_offsets,          \* offset i is face_node_offsets[i+1]
  nodes_for_dual_face,        \* dual face f is nodes_for_dual_face[f+1]
  face_origin,                \* what dual face f was built for: <<"edge", e>>
                              \* in the edge loop, <<"node", n>> in the closure
  closure_pending,            \* nodes of model_face_nodes not yet visited
  dc_offset,
  faces_for_dual_cell,        \* dual cell c is faces_for_dual_cell[c+1]
  face_cells,                 \* dual_mesh->face_cells, pairs <<slot0, slot1>>
  compact_c                   \* the compaction loop's cell counter c

inputs == <<tet_mesh, external_model_face_tags, internal_model_face_tags,
            model_edge_tags, model_vertex_tags, ndebug>>

tag_sets == <<external_boundary_tets, external_model_faces,
              external_model_face_edges, model_face_nodes,
              internal_boundary_tets, internal_model_faces,
              internal_model_face_edges, model_edges, model_edge_nodes,
              model_vertices>>

incidence == <<primal_cells_for_edge, primal_faces_for_edge,
               primal_boundary_faces_for_node>>

counts == <<num_dual_nodes, num_dual_faces, num_dual_cells>>

vertex_state == <<dv_offset, dual_nodes, dual_node_for_model_face,
                  dual_node_for_edge>>

face_state == <<edge, df_offset, face_node_offsets, nodes_for_dual_face,
                face_origin, closure_pending>>

cell_state == <<dc_offset, faces_for_dual_cell, face_cells, compact_c>>

vars == <<inputs, pc, tag_sets, incidence, counts, vertex_state, face_state,
          cell_state>>

\* The primal mesh of this run.
TM == Meshes[tet_mesh]

\* Marks an int that was allocated and never written: its value is
\* indeterminate, and the model never computes with it.
Uninit == -(2 ^ 30)

\* The most tag names one call passes, over its four tag lists together.
MaxTagNames == 4

\* The lengths <<external, internal, edge, vertex>> of the four tag lists.
TagListLengths ==
  {n \in (1..MaxTagNames) \X (0..MaxTagNames) \X (1..MaxTagNames)
          \X (1..MaxTagNames) :
     n[1] + n[2] + n[3] + n[4] <= MaxTagNames}

\* mesh_tag(table, name, &n): the element indices the tag holds, in order.
mesh_tag(table, name) == table[name]

\* All the elements the tags of a list hold, in the order the loops
\* "for each tag, for each element of the tag" visit them.
TaggedInOrder(table, names) ==
  Flatten([i \in DOMAIN names |-> mesh_tag(table, names[i])])

(***************************************************************************)
(* create_dual_mesh: the entry point requires at least one external face   *)
(* tag, one edge tag and one vertex tag.                                   *)
(***************************************************************************)
\* The state on entry to create_dual_mesh_from_tet_mesh: nothing built yet.
Entry ==
  /\ ndebug \in BOOLEAN
  /\ pc = "classify"
  /\ external_boundary_tets = {}
  /\ external_model_faces = {}
  /\ external_model_face_edges = {}
  /\ model_face_nodes = {}
  /\ internal_boundary_tets = {}
  /\ internal_model_faces = {}
  /\ internal_model_face_edges = {}
  /\ model_edges = {}
  /\ model_edge_nodes = {}
  /\ model_vertices = {}
  /\ primal_cells_for_edge = <<>>
  /\ primal_faces_for_edge = <<>>
  /\ primal_boundary_faces_for_node = <<>>
  /\ num_dual_nodes = 0
  /\ num_dual_faces = 0
  /\ num_dual_cells = 0
  /\ dv_offset = 0
  /\ dual_nodes = <<>>
  /\ dual_node_for_model_face = <<>>
  /\ dual_node_for_edge = <<>>
  /\ edge = 0
  /\ df_offset = 0
  /\ face_node_offsets = <<>>
  /\ nodes_for_dual_face = <<>>
  /\ face_origin = <<>>
  /\ closure_pending = {}
  /\ dc_offset = 0
  /\ faces_for_dual_cell = <<>>
  /\ face_cells = <<>>
  /\ compact_c = 0

Init ==
  /\ tet_mesh \in DOMAIN FanMeshes
  /\ \E n \in TagListLengths :
       /\ external_model_face_tags \in [1..n[1] -> DOMAIN TM.face_tags]
       /\ internal_model_face_tags \in [1..n[2] -> DOMAIN TM.face_tags]
       /\ model_edge_tags \in [1..n[3] -> DOMAIN TM.edge_tags]
       /\ model_vertex_tags \in [1..n[4] -> DOMAIN TM.node_tags]
  /\ Entry

(***************************************************************************)
(* Tag classification (lines 105-192).                                     *)
(***************************************************************************)
\* The cells attached to the faces: btet1, and btet2 when it is not -1.
BoundaryTets(faces) ==
  {TM.face_cells[f + 1][1] : f \in faces}
    \cup ({TM.face_cells[f + 1][2] : f \in faces} \ {-1})

FaceEdges(faces) == UNION {TM.face_edges[f + 1] : f \in faces}

FaceNodes(faces) == UNION {TM.face_nodes[f + 1] : f \in faces}

EdgeNodes(edges) ==
  {TM.edge_nodes[e + 1][1] : e \in edges}
    \cup {TM.edge_nodes[e + 1][2] : e \in edges}

\* The classification with the deletions of lines 186-190 left out; the
\* domination property of the model vertices is compared against it.
KeepModelVertices(nodes, vertices) == nodes

\* int_unordered_set_delete of every model vertex, in the vertex loop that
\* runs after the face and edge loops have filled the set.
DeleteModelVertices(nodes, vertices) == nodes \ vertices

ClassifyTags ==
  /\ pc = "classify"
  /\ LET ext == Range(TaggedInOrder(TM.face_tags, external_model_face_tags))
         int == Range(TaggedInOrder(TM.face_tags, internal_model_face_tags))
         edg == Range(TaggedInOrder(TM.edge_tags, model_edge_tags))
         vtx == Range(TaggedInOrder(TM.node_tags, model_vertex_tags))
     IN /\ external_model_faces' = ext
        /\ external_boundary_tets' = BoundaryTets(ext)
        /\ external_model_face_edges' = FaceEdges(ext)
        /\ internal_model_faces' = int
        /\ internal_boundary_tets' = BoundaryTets(int)
        /\ internal_model_face_edges' = FaceEdges(int)
        /\ model_edges' = edg
        /\ model_vertices' = vtx
        /\ model_edge_nodes' = DeleteModelVertices(EdgeNodes(edg), vtx)
        /\ model_face_nodes' =
             DeleteModelVertices(FaceNodes(ext) \cup FaceNodes(int), vtx)
  /\ pc' = "incidence"
  /\ UNCHANGED <<inputs, incidence, counts, vertex_state, face_state,
                 cell_state>>

(***************************************************************************)
(* Edge and node incidence (lines 194-248): one traversal of               *)
(* cell -> face -> edge/node.  A set that is never created stays NULL,     *)
(* which the model writes {} (a created set is never empty).               *)
(***************************************************************************)
FacesOfCells == UNION {TM.cell_faces[c] : c \in 1..TM.num_cells}

CellsForEdge(e) ==
  {c \in 0..(TM.num_cells - 1) :
     \E f \in TM.cell_faces[c + 1] : e \in TM.face_edges[f + 1]}

FacesForEdge(e) == {f \in FacesOfCells : e \in TM.face_edges[f + 1]}

BoundaryFacesForNode(n) ==
  {f \in FacesOfCells :
     /\ f \in external_model_faces \/ f \in internal_model_faces
     /\ n \in TM.face_nodes[f + 1]}

BuildIncidence ==
  /\ pc = "incidence"
  /\ primal_cells_for_edge' = [e \in 1..TM.num_edges |-> CellsForEdge(e - 1)]
  /\ primal_faces_for_edge' = [e \in 1..TM.num_edges |-> FacesForEdge(e - 1)]
  /\ primal_boundary_faces_for_node' =
       [n \in 1..TM.num_nodes |-> BoundaryFacesForNode(n - 1)]
  /\ pc' = "count"
  /\ UNCHANGED <<inputs, tag_sets, counts, vertex_state, face_state,
                 cell_state>>

(***************************************************************************)
(* Entity counts and mesh_new (lines 250-295).                             *)
(***************************************************************************)
IsTaggedFace(f) == f \in external_model_faces \/ f \in internal_model_faces

\* sum of set->size over the entries of a table of sets
RECURSIVE SumSizes(_, _)
SumSizes(table, keys) ==
  IF keys = {} THEN 0
  ELSE LET k == MinOf(keys) IN
       Cardinality(table[k + 1]) + SumSizes(table, keys \ {k})

NumDualNodes ==
  Cardinality(external_model_faces) + Cardinality(internal_model_faces)
    + TM.num_cells + Cardinality(model_edges) + Cardinality(model_vertices)

NumDualFacesFromBoundaryVertices ==
  SumSizes(primal_boundary_faces_for_node, 0..(TM.num_nodes - 1))
    + SumSizes([e \in 1..TM.num_edges |->
                  {f \in primal_faces_for_edge[e] : IsTaggedFace(f)}],
               model_edges)
    + SumSizes(primal_boundary_faces_for_node, model_vertices)

NumDualFaces ==
  TM.num_edges + Cardinality(external_model_face_edges)
    + NumDualFacesFromBoundaryVertices

\* ASSERT(boundary_faces_for_node != NULL) of line 283 fails for this input.
SomeModelVertexOffBoundary ==
  \E v \in model_vertices : primal_boundary_faces_for_node[v + 1] = {}

CountEntities ==
  /\ pc = "count"
  /\ IF SomeModelVertexOffBoundary
       THEN \* debug build: the ASSERT aborts; release build: NULL->size
            /\ pc' = IF ndebug THEN "ub" ELSE "fatal"
            /\ UNCHANGED <<counts, face_node_offsets, face_cells>>
       ELSE /\ num_dual_nodes' = NumDualNodes
            /\ num_dual_faces' = NumDualFaces
            /\ num_dual_cells' = TM.num_nodes
            \* mesh_new: the offset table is allocated, face_cells are -1
            /\ face_node_offsets' = [i \in 1..(NumDualFaces + 1) |-> Uninit]
            /\ face_cells' = [f \in 1..NumDualFaces |-> <<-1, -1>>]
            /\ pc' = "vertices"
  /\ UNCHANGED <<inputs, tag_sets, incidence, vertex_state, edge, df_offset,
                 nodes_for_dual_face, face_origin, closure_pending,
                 dc_offset, faces_for_dual_cell, compact_c>>

(***************************************************************************)
(* Dual vertices (lines 297-371): one per primal cell, then one per entry  *)
(* of every external face tag, internal face tag, edge tag and vertex tag, *)
(* in that order.  A dual node is recorded by what it was computed from.   *)
(***************************************************************************)
\* The tetrahedron_t of line 298 is never given the nodes of cell c: every
\* cell's dual node is computed from the tetrahedron tetrahedron_new()
\* returns, written src = -1.
CellDualNodes == [c \in 1..TM.num_cells |-> [kind |-> "cell", src |-> -1]]

ElementDualNodes(kind, elements) ==
  [i \in DOMAIN elements |-> [kind |-> kind, src |-> elements[i]]]

\* int_int_unordered_map_insert of the pairs in order; a key inserted again
\* takes the new value.
RECURSIVE InsertAll(_, _, _)
InsertAll(map, keys, first) ==
  IF keys = <<>> THEN map
  ELSE InsertAll((Head(keys) :> first) @@ map, Tail(keys), first + 1)

\* The key under which the dual node of the e-th entry of an edge tag, the
\* primal edge `edge`, is stored (line 350 inserts e, the loop counter).
EdgeMapKey(e, primal_edge) == e

EdgeMapKeys ==
  Flatten([i \in DOMAIN model_edge_tags |->
             LET tag == mesh_tag(TM.edge_tags, model_edge_tags[i]) IN
             [e \in DOMAIN tag |-> EdgeMapKey(e - 1, tag[e])]])

GenerateDualVertices ==
  /\ pc = "vertices"
  /\ LET ext == TaggedInOrder(TM.face_tags, external_model_face_tags)
         int == TaggedInOrder(TM.face_tags, internal_model_face_tags)
         edg == TaggedInOrder(TM.edge_tags, model_edge_tags)
         vtx == TaggedInOrder(TM.node_tags, model_vertex_tags)
         all == CellDualNodes \o ElementDualNodes("face", ext)
                  \o ElementDualNodes("face", int)
                  \o ElementDualNodes("edge", edg)
                  \o ElementDualNodes("vertex", vtx)
     IN /\ dual_nodes' = all
        /\ dv_offset' = Len(all)
        /\ dual_node_for_model_face' =
             InsertAll(<<>>, ext \o int, TM.num_cells)
        /\ dual_node_for_edge' =
             InsertAll(<<>>, EdgeMapKeys,
                       TM.num_cells + Len(ext) + Len(int))
        /\ pc' = IF Len(all) > num_dual_nodes
                   THEN "ub"      \* dual_mesh->nodes written past its end
                 ELSE IF Len(all) # num_dual_nodes /\ ~ndebug
                   THEN "fatal"   \* ASSERT(dv_offset == num_dual_nodes)
                 ELSE "edges"
  \* lines 368-371: the edge loop starts at face 0, offset 0
  /\ df_offset' = 0
  /\ edge' = 0
  /\ face_node_offsets' = [face_node_offsets EXCEPT ![1] = 0]
  /\ nodes_for_dual_face' = <<>>
  /\ UNCHANGED <<inputs, tag_sets, incidence, counts, face_origin,
                 closure_pending, cell_state>>

(***************************************************************************)
(* The dual-face loop over the primal edges (lines 372-570).  Each step    *)
(* handles the primal edge `edge` by one of the three branches.            *)
(***************************************************************************)
cells_for_edge == primal_cells_for_edge[edge + 1]

is_external_face_edge == edge \in external_model_face_edges

is_internal_face_edge == edge \in internal_model_face_edges

is_model_edge == edge \in model_edges

\* What a failed ASSERT leads to: polymec_abort in a debug build; in a
\* release build the statement is absent and the run goes on as `otherwise`.
AssertOr(otherwise) == IF ndebug THEN otherwise ELSE "fatal"

\* The outcome of one step of a face loop.  `faces` are the node lists stored
\* in nodes_for_dual_face from slot df_offset on, `sizes` the face sizes
\* added to face_node_offsets from entry df_offset+1 on, `status` is "ok" or
\* the way the step ended the run; the counters advance only when it is "ok".
Outcome(status, faces, sizes) ==
  [status |-> status, faces |-> faces, sizes |-> sizes]

RECURSIVE WriteOffsets(_, _, _)
WriteOffsets(offsets, at, sizes) ==
  IF sizes = <<>> THEN offsets
  ELSE WriteOffsets([offsets EXCEPT ![at + 2] = offsets[at + 1] + Head(sizes)],
                    at + 1, Tail(sizes))

\* Slot df_offset+k-1 of nodes_for_dual_face and entry df_offset+k of
\* face_node_offsets exist for every face the step stores.
SlotsInBounds(o) ==
  /\ df_offset + Len(o.faces) <= num_dual_faces
  /\ df_offset + Len(o.sizes) <= num_dual_faces

\* A store past the end of either table is undefined behaviour.
Apply(o, origin, next_pc) ==
  IF ~SlotsInBounds(o)
    THEN /\ pc' = "ub"
         /\ UNCHANGED <<df_offset, face_node_offsets, nodes_for_dual_face,
                        face_origin>>
    ELSE /\ nodes_for_dual_face' =
              SubSeq(nodes_for_dual_face, 1, df_offset) \o o.faces
         /\ face_origin' =
              SubSeq(face_origin, 1, df_offset)
                \o [i \in 1..Len(o.faces) |-> origin]
         /\ face_node_offsets' =
              WriteOffsets(face_node_offsets, df_offset, o.sizes)
         /\ df_offset' = IF o.status = "ok"
                           THEN df_offset + Len(o.faces) ELSE df_offset
         /\ pc' = IF o.status = "ok" THEN next_pc ELSE o.status

\* int_array_resize(a, n) followed by stores: n ints, those not stored
\* indeterminate.
Resized(n, stored) ==
  [i \in 1..n |-> IF i <= Len(stored) THEN stored[i] ELSE Uninit]

(***************************************************************************)
(* order_nodes_of_dual_face (lines 33-89).  `indices` is the caller's      *)
(* dual_node_indices (the cells in iteration order), `ends` the pair       *)
(* endpoint_indices.  The result is the set of outcomes <<status, indices>> *)
(* the call can have.                                                      *)
(***************************************************************************)
\* lines 394-405: the first boundary tet met is endpoint 0, every later one
\* overwrites endpoint 1.
EndpointIndices(order) ==
  LET at == {c \in 0..(Len(order) - 1) :
               order[c + 1] \in external_boundary_tets}
  IN <<IF at = {} THEN -1 ELSE MinOf(at),
       IF Cardinality(at) < 2 THEN -1 ELSE MaxOf(at)>>

\* lines 39-42
OrderNodesAsserts(ends, num_nodes) ==
  /\ num_nodes >= 2
  /\ ends[1] # -1
  /\ ends[2] # -1
  /\ ends[1] # ends[2]

\* lines 53-62: the position between the two endpoints
MiddleOfThree(indices, ends) ==
  LET free == {i \in 0..2 : i # ends[1] /\ i # ends[2]}
  IN <<ends[1], IF free = {} THEN indices[2] ELSE MinOf(free), ends[2]>>

\* lines 68-87: every qualifying i is stored in tweener_nodes[0] (j is never
\* advanced), the other num_nodes-3 entries are never written, and qsort
\* orders the entries by angles that are indeterminate for all but one of
\* them: the written entry can end anywhere.  The test of line 72 reads
\* dual_node_indices[0] and [2], still the caller's cell indices, and line
\* 87 stores endpoint 0 a second time.
SortedTweeners(indices, ends, num_nodes) ==
  LET last == MaxOf({i \in 0..(num_nodes - 1) :
                       i # indices[1] /\ i # indices[3]})
  IN {<<ends[1]>>
        \o [i \in 1..(num_nodes - 2) |-> IF i = at THEN last ELSE Uninit]
        \o <<ends[1]>> : at \in 1..(num_nodes - 2)}

order_nodes_of_dual_face(ends, num_nodes, indices) ==
  IF ~OrderNodesAsserts(ends, num_nodes) /\ ~ndebug
    THEN {<<"fatal", indices>>}
  ELSE IF num_nodes = 2
    THEN {<<"ok", <<ends[1], ends[2]>> >>}
  ELSE IF num_nodes = 3
    THEN {<<"ok", MiddleOfThree(indices, ends)>>}
  ELSE IF num_nodes < 2
    THEN {<<"ub", indices>>}     \* tweener_nodes[num_nodes-2], negative size
  ELSE {<<"ok", t>> : t \in SortedTweeners(indices, ends, num_nodes)}

(***************************************************************************)
(* An edge of a tagged external face (lines 382-440).                      *)
(***************************************************************************)
\* int_int_unordered_map_get returns NULL when the key is absent.
MapHas(map, key) == key \in DOMAIN map

\* *int_int_unordered_map_get(map, key), for a key that is present
MapGet(map, key) == map[key]

ExternalFace(order) ==
  LET num_nodes == Len(order)
      ordered == order_nodes_of_dual_face(EndpointIndices(order), num_nodes,
                                          order)
      num_face_nodes == IF is_model_edge THEN num_nodes + 1 ELSE num_nodes
      dual_node_from_edge == MapGet(dual_node_for_edge, edge)
  IN {IF r[1] # "ok"
        THEN Outcome(r[1], <<>>, <<>>)
      ELSE IF num_face_nodes < 3 /\ ~ndebug
        THEN Outcome("fatal", <<>>, <<>>)         \* ASSERT of line 423
      ELSE IF ~is_model_edge
        THEN Outcome("ok", <<Resized(num_face_nodes, r[2])>>,
                     <<num_face_nodes>>)
      ELSE IF ~MapHas(dual_node_for_edge, edge)
        THEN \* ASSERT of line 435, or *NULL in a release build
             Outcome(IF ndebug THEN "ub" ELSE "fatal",
                     <<Resized(num_face_nodes, r[2])>>, <<num_face_nodes>>)
      ELSE Outcome("ok", <<Append(r[2], dual_node_from_edge)>>,
                   <<num_face_nodes>>)
      : r \in ordered}

ExternalEdgeFace ==
  /\ pc = "edges"
  /\ edge < TM.num_edges
  /\ is_external_face_edge
  /\ \E order \in Orderings(cells_for_edge) :
       \E o \in ExternalFace(order) :
         /\ Apply(o, <<"edge", edge>>, "edges")
         /\ edge' = IF o.status = "ok" THEN edge + 1 ELSE edge
  /\ UNCHANGED <<inputs, tag_sets, incidence, counts, vertex_state,
                 closure_pending, cell_state>>

(***************************************************************************)
(* polygon_giftwrap and polygon_ordering: the orderings the convex-hull    *)
(* routine can return for n points, each a permutation of the local        *)
(* positions 0..n-1 (which one depends on the points' coordinates).        *)
(***************************************************************************)
polygon_ordering(n) == Permutations0(n)

(***************************************************************************)
(* An edge of a tagged internal face (lines 441-543).  `ring` is           *)
(* dual_node_indices[ordering[i]], the cells in polygon order.             *)
(***************************************************************************)
\* mesh_cell_face_for_neighbor: the face of `cell` whose opposite cell is
\* `neighbor`, or -1.
mesh_cell_face_for_neighbor(cell, neighbor) ==
  LET shared == {f \in TM.cell_faces[cell + 1] :
                   /\ cell # neighbor
                   /\ {TM.face_cells[f + 1][1], TM.face_cells[f + 1][2]}
                        = {cell, neighbor}}
  IN IF shared = {} THEN -1 ELSE MinOf(shared)

\* lines 477-484
IsTransition(this_cell, next_cell) ==
  /\ this_cell \in internal_boundary_tets
  /\ next_cell \in internal_boundary_tets
  /\ LET shared_face == mesh_cell_face_for_neighbor(this_cell, next_cell)
     IN shared_face # -1 /\ shared_face \in internal_model_faces

\* lines 471-502: <<start_index1, stop_index1, start_index2, stop_index2>>
\* after the iterations i, i+1, ..., num_cells-1 of the scan.
RECURSIVE ScanRing(_, _, _)
ScanRing(ring, i, found) ==
  IF i >= Len(ring) THEN found
  ELSE LET this_cell == ring[i + 1]
           next_cell == ring[((i + 1) % Len(ring)) + 1]
       IN ScanRing(ring, i + 1,
                   IF ~IsTransition(this_cell, next_cell) THEN found
                   ELSE IF found[1] = -1
                     THEN <<next_cell, found[2], found[3], this_cell>>
                   ELSE <<found[1], this_cell, next_cell, found[4]>>)

\* lines 513-517 store face1_nodes->data[i] for i = start..stop into an
\* array of stop-start+1 ints: every store is inside it only when start is 0.
FirstArcInBounds(start, stop) == start > stop \/ start = 0

\* face1_nodes after the loop of lines 513-517: the entries at start..stop
\* that exist hold ordering[(start + i) % num_cells], the others nothing.
FirstArc(ring, start, stop, size) ==
  [i \in 1..size |->
     IF start <= i - 1 /\ i - 1 <= stop
       THEN ring[((start + i - 1) % Len(ring)) + 1]
       ELSE Uninit]

\* lines 526-530: the second loop stores into face1_nodes again, at
\* 0..num_nodes2 inclusive, reading ordering[(start + i) % num_cells].
SecondArcInBounds(face1, start, num_nodes2) ==
  start >= 0 /\ num_nodes2 < Len(face1)

SecondArc(ring, face1, start, num_nodes2) ==
  [i \in 1..Len(face1) |->
     IF i <= num_nodes2 + 1
       THEN ring[((start + i - 1) % Len(ring)) + 1]
       ELSE face1[i]]

\* A store past the size of an int_array_t is undefined: the run dies, or
\* the int lands in memory behind the array and the run goes on with the
\* array as its in-bounds stores left it.
PastTheEnd(o) == {[o EXCEPT !.status = "ub"], o}

InternalFaces(ring) ==
  LET found == ScanRing(ring, 0, <<-1, -1, -1, -1>>)
      num_nodes1 == found[2] - found[1] + 1
      num_face1_nodes == IF is_model_edge THEN num_nodes1 + 1 ELSE num_nodes1
      face1 == FirstArc(ring, found[1], found[2], num_nodes1)
      num_nodes2 == found[4] - found[3] + 1
      num_face2_nodes == IF is_model_edge THEN num_nodes2 + 1 ELSE num_nodes2
      face1_again == SecondArc(ring, face1, found[3], num_nodes2)
      face2 == Resized(num_nodes2, <<>>)
      both == Outcome("ok", <<face1_again, face2>>,
                      <<num_face1_nodes, num_face2_nodes>>)
  IN IF num_face1_nodes < 3 /\ ~ndebug
       THEN {Outcome("fatal", <<>>, <<>>)}                \* line 508
     ELSE IF num_nodes1 < 0 \/ (found[1] < 0 /\ found[1] <= found[2])
       THEN \* a negative size, or a store at data[-1]
            {Outcome("ub", <<>>, <<num_face1_nodes>>)}    \* lines 512-517
     ELSE IF num_face2_nodes < 3 /\ ~ndebug
       THEN {Outcome("fatal", <<face1>>, <<num_face1_nodes>>)}   \* line 521
     ELSE IF num_nodes2 < 0 \/ found[3] < 0
       THEN \* a negative size, or a read of ordering[-1]
            {Outcome("ub", <<face1>>, <<num_face1_nodes, num_face2_nodes>>)}
     ELSE IF is_model_edge /\ ~MapHas(dual_node_for_edge, edge)
       THEN \* the ASSERT of line 537, or *NULL in a release build
            {[both EXCEPT !.status = IF ndebug THEN "ub" ELSE "fatal"]}
     ELSE IF \/ is_model_edge       \* lines 539-540: data[size] of both
             \/ ~FirstArcInBounds(found[1], found[2])
             \/ ~SecondArcInBounds(face1, found[3], num_nodes2)
       THEN PastTheEnd(both)
     ELSE {both}

InternalEdgeFaces ==
  /\ pc = "edges"
  /\ edge < TM.num_edges
  /\ ~is_external_face_edge
  /\ is_internal_face_edge
  /\ \E order \in Orderings(cells_for_edge) :
       \E ordering \in polygon_ordering(Len(order)) :
         LET ring == [i \in 1..Len(order) |-> order[ordering[i] + 1]]
         IN \E o \in InternalFaces(ring) :
              /\ Apply(o, <<"edge", edge>>, "edges")
              /\ edge' = IF o.status = "ok" THEN edge + 1 ELSE edge
  /\ UNCHANGED <<inputs, tag_sets, incidence, counts, vertex_state,
                 closure_pending, cell_state>>

(***************************************************************************)
(* An interior edge (lines 544-569): the face's node list is the polygon   *)
(* ordering itself.                                                        *)
(***************************************************************************)
InteriorFace(ordering) == Outcome("ok", <<ordering>>, <<Len(ordering)>>)

InteriorEdgeFace ==
  /\ pc = "edges"
  /\ edge < TM.num_edges
  /\ ~is_external_face_edge
  /\ ~is_internal_face_edge
  /\ \E ordering \in polygon_ordering(Cardinality(cells_for_edge)) :
       Apply(InteriorFace(ordering), <<"edge", edge>>, "edges")
  /\ edge' = edge + 1
  /\ UNCHANGED <<inputs, tag_sets, incidence, counts, vertex_state,
                 closure_pending, cell_state>>

\* line 571, and the start of the closure loop over model_face_nodes
EndEdgeLoop ==
  /\ pc = "edges"
  /\ edge = TM.num_edges
  /\ pc' = IF df_offset = num_dual_faces THEN "closure" ELSE AssertOr("closure")
  /\ closure_pending' = model_face_nodes
  /\ UNCHANGED <<inputs, tag_sets, incidence, counts, vertex_state, edge,
                 df_offset, face_node_offsets, nodes_for_dual_face,
                 face_origin, cell_state>>

(***************************************************************************)
(* Dual faces closing the dual cells of the nodes of tagged faces (lines   *)
(* 573-640).  The loop visits model_face_nodes in the set's iteration      *)
(* order; a node of a model edge gets no face; the loops over model edges  *)
(* and model vertices that follow have empty bodies.                       *)
(***************************************************************************)
\* lines 584-605: the node list is the polygon ordering of the node's
\* boundary faces; face_node_offsets is not written.
ClosureFace(ordering) == Outcome("ok", <<ordering>>, <<>>)

NodeClosureFace ==
  /\ pc = "closure"
  /\ \E node \in closure_pending :
       /\ node \notin model_edge_nodes
       /\ closure_pending' = closure_pending \ {node}
       /\ \E ordering \in polygon_ordering(
               Cardinality(primal_boundary_faces_for_node[node + 1])) :
            Apply(ClosureFace(ordering), <<"node", node>>, "closure")
  /\ UNCHANGED <<inputs, tag_sets, incidence, counts, vertex_state, edge,
                 cell_state>>

\* line 580: "This rule does not apply to nodes on model edges."
NodeOnModelEdge ==
  /\ pc = "closure"
  /\ \E node \in closure_pending :
       /\ node \in model_edge_nodes
       /\ closure_pending' = closure_pending \ {node}
  /\ UNCHANGED <<inputs, pc, tag_sets, incidence, counts, vertex_state, edge,
                 df_offset, face_node_offsets, nodes_for_dual_face,
                 face_origin, cell_state>>

(***************************************************************************)
(* Dual cells (lines 642-647): the table of face lists is allocated and    *)
(* zeroed, no list is built and the counter stays 0.                       *)
(***************************************************************************)
\* An int_array_t*: NULL, or an array holding `data`.
NullArray == [null |-> TRUE, data |-> <<>>]

IntArray(data) == [null |-> FALSE, data |-> data]

CreateDualCells ==
  /\ pc = "closure"
  /\ closure_pending = {}
  /\ dc_offset' = 0
  /\ faces_for_dual_cell' = [n \in 1..num_dual_cells |-> NullArray]
  /\ compact_c' = 0
  /\ pc' = IF 0 = num_dual_cells THEN "compact" ELSE AssertOr("compact")
  /\ UNCHANGED <<inputs, tag_sets, incidence, counts, vertex_state,
                 face_state, face_cells>>

(***************************************************************************)
(* Compaction (lines 649-663): the back-fill of dual_mesh->face_cells.      *)
(* The copy of line 654 reads cell_faces->data, as the back-fill does, and *)
(* fails with it on a NULL list; the cell_faces array it fills is not part *)
(* of the state.                                                           *)
(***************************************************************************)
\* lines 658-661: dual cell `cell` lists dual face `face`.
BackfillFace(slots, cell) ==
  IF slots[1] = -1 THEN <<cell, slots[2]>> ELSE <<slots[1], cell>>

\* lines 655-662 for the faces of one cell, in list order
RECURSIVE BackfillCell(_, _, _)
BackfillCell(fc, cell, faces) ==
  IF faces = <<>> THEN fc
  ELSE BackfillCell(
         [fc EXCEPT ![Head(faces) + 1] = BackfillFace(fc[Head(faces) + 1], cell)],
         cell, Tail(faces))

\* The cell's list can be read and names faces of the dual mesh only.
CellListUsable(cell_faces) ==
  /\ ~cell_faces.null
  /\ \A i \in DOMAIN cell_faces.data :
       cell_faces.data[i] \in 0..(num_dual_faces - 1)

\* One iteration of the loop of line 651.
CompactCell ==
  /\ pc = "compact"
  /\ compact_c < num_dual_cells
  /\ LET cell_faces == faces_for_dual_cell[compact_c + 1]
     IN IF CellListUsable(cell_faces)
          THEN /\ face_cells' = BackfillCell(face_cells, compact_c, cell_faces.data)
               /\ compact_c' = compact_c + 1
               /\ pc' = pc
          ELSE /\ pc' = "ub"       \* cell_faces->data with cell_faces NULL
               /\ UNCHANGED <<face_cells, compact_c>>
  /\ UNCHANGED <<inputs, tag_sets, incidence, counts, vertex_state,
                 face_state, dc_offset, faces_for_dual_cell>>

Next ==
  \/ ClassifyTags
  \/ BuildIncidence
  \/ CountEntities
  \/ GenerateDualVertices
  \/ ExternalEdgeFace
  \/ InternalEdgeFaces
  \/ InteriorEdgeFace
  \/ EndEdgeLoop
  \/ NodeClosureFace
  \/ NodeOnModelEdge
  \/ CreateDualCells
  \/ CompactCell

Spec == Init /\ [][Next]_vars

(***************************************************************************)
(* The stellated tetrahedron with its exterior face 0 tagged as the one    *)
(* external model face.  It has no internal model face and no model edge,  *)
(* so the steps for those are never enabled and are left out.              *)
(***************************************************************************)
StellatedInit ==
  /\ tet_mesh = Len(Meshes)
  /\ external_model_face_tags = <<"exterior">>
  /\ internal_model_face_tags = <<>>
  /\ model_edge_tags = <<"none">>
  /\ model_vertex_tags = <<"none">>
  /\ Entry

StellatedNext ==
  \/ ClassifyTags
  \/ BuildIncidence
  \/ CountEntities
  \/ GenerateDualVertices
  \/ ExternalEdgeFace
  \/ InteriorEdgeFace
  \/ EndEdgeLoop
  \/ NodeClosureFace
  \/ CreateDualCells
  \/ CompactCell

StellatedSpec == StellatedInit /\ [][StellatedNext]_vars

(***************************************************************************)
(* The compaction loop on its own.  The cell assembly of lines 642-647     *)
(* leaves every list NULL, so the loop of lines 651-663 is also run from   *)
(* assembled lists drawn from a bounded set: BackfillCells dual cells,     *)
(* each listing distinct faces among BackfillFaces dual faces (or still    *)
(* NULL), with both slots of every face at -1 as mesh_new leaves them.     *)
(***************************************************************************)
BackfillCells == 3

BackfillFaces == 2

FaceLists ==
  {NullArray} \cup
  {IntArray(s) : s \in UNION {Orderings(S) : S \in SUBSET (0..(BackfillFaces - 1))}}

BackfillInit ==
  /\ tet_mesh = 1
  /\ external_model_face_tags = <<"none">>
  /\ internal_model_face_tags = <<>>
  /\ model_edge_tags = <<"none">>
  /\ model_vertex_tags = <<"none">>
  /\ ndebug \in BOOLEAN
  /\ pc = "compact"
  /\ external_boundary_tets = {}
  /\ external_model_faces = {}
  /\ external_model_face_edges = {}
  /\ model_face_nodes = {}
  /\ internal_boundary_tets = {}
  /\ internal_model_faces = {}
  /\ internal_model_face_edges = {}
  /\ model_edges = {}
  /\ model_edge_nodes = {}
  /\ model_vertices = {}
  /\ primal_cells_for_edge = <<>>
  /\ primal_faces_for_edge = <<>>
  /\ primal_boundary_faces_for_node = <<>>
  /\ num_dual_nodes = 0
  /\ num_dual_faces = BackfillFaces
  /\ num_dual_cells = BackfillCells
  /\ dv_offset = 0
  /\ dual_nodes = <<>>
  /\ dual_node_for_model_face = <<>>
  /\ dual_node_for_edge = <<>>
  /\ edge = 0
  /\ df_offset = 0
  /\ face_node_offsets = <<>>
  /\ nodes_for_dual_face = <<>>
  /\ face_origin = <<>>
  /\ closure_pending = {}
  /\ dc_offset = BackfillCells
  /\ faces_for_dual_cell \in [1..BackfillCells -> FaceLists]
  /\ face_cells = [f \in 1..BackfillFaces |-> <<-1, -1>>]
  /\ compact_c = 0

BackfillNext == CompactCell

BackfillSpec == BackfillInit /\ [][BackfillNext]_vars

(***************************************************************************)
(* Properties.                                                             *)
(***************************************************************************)
\* Vertex generation (lines 297-365) has run: there is at least one cell.
VerticesGenerated == dual_nodes # <<>>

\* The cell assembly of lines 642-647 has run, so face construction is over.
FacesBuilt == faces_for_dual_cell # <<>>

TaggedFaces == external_model_faces \cup internal_model_faces

\* The dual faces emitted so far, as positions in nodes_for_dual_face.
EmittedFaces == 1..df_offset

IsEdgeFace(f) == face_origin[f][1] = "edge"

IsClosureFace(f) == face_origin[f][1] = "node"

LastOf(s) == s[Len(s)]

\* d is the index of a dual vertex generated for element src of that kind
IsDualNodeOf(d, kind, src) ==
  /\ d \in 0..(Len(dual_nodes) - 1)
  /\ dual_nodes[d + 1] = [kind |-> kind, src |-> src]

KindRank(kind) ==
  CASE kind = "cell" -> 0
    [] kind = "face" -> 1
    [] kind = "edge" -> 2
    [] OTHER -> 3

\* C1: once vertex generation has ended, the allocated dual-node count and
\* the running vertex counter both equal |primal cells| + |tagged faces| +
\* |tagged edges| + |tagged vertices|, each tagged element counted once,
\* also when an element is named by more than one tag.
C1_DualNodeCount ==
  VerticesGenerated =>
    LET expected == TM.num_cells + Cardinality(TaggedFaces)
                      + Cardinality(model_edges) + Cardinality(model_vertices)
    IN /\ num_dual_nodes = expected
       /\ dv_offset = expected

\* C2: when face construction is over, the allocated dual-face count equals
\* |primal edges| + |edges on tagged external faces| + the number of faces
\* generated from tagged nodes, and the running face counter equals the
\* allocated count.
C2_DualFaceCount ==
  FacesBuilt =>
    /\ num_dual_faces =
         TM.num_edges + Cardinality(external_model_face_edges)
           + Cardinality({f \in EmittedFaces : IsClosureFace(f)})
    /\ df_offset = num_dual_faces

\* C3: when face construction is over, for every emitted dual face (edge or
\* closure derived) both of its offsets are set and their difference is the
\* length of the face's node list; the table is then non-decreasing and its
\* last used entry is the sum of the node counts.
C3_OffsetsMatchNodeLists ==
  FacesBuilt =>
    \A f \in EmittedFaces :
      /\ face_node_offsets[f] # Uninit
      /\ face_node_offsets[f + 1] # Uninit
      /\ face_node_offsets[f + 1] - face_node_offsets[f]
           = Len(nodes_for_dual_face[f])

\* C4: every emitted dual face, of whatever kind, has at least 3 nodes; a
\* face with fewer ends the construction instead of being emitted.
C4_AtLeastThreeNodes ==
  \A f \in EmittedFaces : Len(nodes_for_dual_face[f]) >= 3

\* The dual cells already compacted that list dual face `face`.
Listers(face) ==
  {cell \in 0..(compact_c - 1) :
     /\ ~faces_for_dual_cell[cell + 1].null
     /\ face \in Range(faces_for_dual_cell[cell + 1].data)}

C6_EdgeVertexIsFinalNode ==
  \A f \in EmittedFaces :
    (/\ IsEdgeFace(f)
     /\ face_origin[f][2] \in model_edges
     /\ face_origin[f][2] \in
          external_model_face_edges \cup internal_model_face_edges)
    => /\ nodes_for_dual_face[f] # <<>>
       /\ IsDualNodeOf(LastOf(nodes_for_dual_face[f]), "edge",
                       face_origin[f][2])

\* C7: no model vertex is a member of the model-edge-node set or of the
\* model-face-node set, whatever the tag lists.
C7_VertexClassificationDominates ==
  /\ model_vertices \cap model_edge_nodes = {}
  /\ model_vertices \cap model_face_nodes = {}

\* Classification has run and deleted a model vertex from both other sets:
\* the vertex lies on a tagged face and on a tagged edge.
C7_Witness ==
  /\ pc # "classify"
  /\ \E v \in model_vertices :
       /\ v \in FaceNodes(TaggedFaces)
       /\ v \in EdgeNodes(model_edges)

\* The dual face at position f is incident to primal node n.
IncidentToNode(f, n) ==
  IF IsEdgeFace(f)
    THEN n \in Range(TM.edge_nodes[face_origin[f][2] + 1])
    ELSE face_origin[f][2] = n

\* C8: when cell assembly has ended there is one dual cell per primal node,
\* the assembly counter equals the primal node count, and the face list of
\* the cell of node n holds every emitted dual face incident to n.
C8_OneCellPerNode ==
  FacesBuilt =>
    /\ num_dual_cells = TM.num_nodes
    /\ dc_offset = TM.num_nodes
    /\ \A n \in 0..(TM.num_nodes - 1) :
         /\ ~faces_for_dual_cell[n + 1].null
         /\ \A f \in EmittedFaces :
              IncidentToNode(f, n) =>
                (f - 1) \in Range(faces_for_dual_cell[n + 1].data)

\* C9: after vertex generation, the face map sends every tagged face and
\* the edge map every tagged edge to the index of a dual vertex generated
\* for that element, and the dual vertices come in blocks in the order
\* cells, faces, edges, vertices.
C9_LookupMaps ==
  VerticesGenerated =>
    /\ \A f \in TaggedFaces :
         /\ MapHas(dual_node_for_model_face, f)
         /\ IsDualNodeOf(MapGet(dual_node_for_model_face, f), "face", f)
    /\ \A e \in model_edges :
         /\ MapHas(dual_node_for_edge, e)
         /\ IsDualNodeOf(MapGet(dual_node_for_edge, e), "edge", e)
    /\ \A i, j \in DOMAIN dual_nodes :
         i < j => KindRank(dual_nodes[i].kind) <= KindRank(dual_nodes[j].kind)

\* C10: the dual face of an external-boundary edge with incident cells C,
\* |C| >= 2, two of them on the external boundary, lists in its first |C|
\* places the dual vertex of every cell of C once (the dual vertex of cell
\* c has index c), starting at one of the two boundary cells and ending at
\* the other; for |C| = 2 these are the two endpoints, for |C| = 3 the
\* remaining cell is in the middle.
C10_PathBetweenEndpoints ==
  \A f \in EmittedFaces :
    (/\ IsEdgeFace(f)
     /\ face_origin[f][2] \in external_model_face_edges
     /\ Cardinality(primal_cells_for_edge[face_origin[f][2] + 1]) >= 2
     /\ Cardinality(primal_cells_for_edge[face_origin[f][2] + 1]
                      \cap external_boundary_tets) = 2)
    => LET C == primal_cells_for_edge[face_origin[f][2] + 1]
           n == Cardinality(C)
           path == nodes_for_dual_face[f]
       IN /\ Len(path) >= n
          /\ {path[i] : i \in 1..n} = C
          /\ path[1] \in external_boundary_tets
          /\ path[n] \in external_boundary_tets
          /\ path[1] # path[n]

\* The edge loop is about to handle `edge`.
AtEdge == pc = "edges" /\ edge < TM.num_edges

\* The rings dual_node_indices[ordering[i]] the cells of `edge` can form.
Rings == Orderings(cells_for_edge)

\* lines 472-502: the positions i of the ring where the pair
\* (this_cell, next_cell) crosses a tagged internal face
Transitions(ring) ==
  {i \in 0..(Len(ring) - 1) :
     IsTransition(ring[i + 1], ring[((i + 1) % Len(ring)) + 1])}

\* The node list without the edge's dual vertex appended to it.
WithoutEdgeVertex(nodes) ==
  IF is_model_edge /\ nodes # <<>>
    THEN SubSeq(nodes, 1, Len(nodes) - 1) ELSE nodes

\* arc is a run of consecutive cells of the ring that starts behind one
\* transition and stops at a transition.
IsArcBetweenTransitions(arc, ring) ==
  /\ arc # <<>>
  /\ \E t \in Transitions(ring) :
       \A i \in 1..Len(arc) :
         arc[i] = ring[((t + i) % Len(ring)) + 1]
  /\ \E t \in Transitions(ring) : arc[Len(arc)] = ring[t + 1]

\* C11: for an edge of a tagged internal face whose ring has exactly two
\* transitions, the step emits exactly 2 dual faces; each holds one of the
\* two arcs of the ring between the transitions, in ring order, and together
\* they hold the dual vertex (the index) of every incident cell once.
C11_TwoArcs ==
  (AtEdge /\ ~is_external_face_edge /\ is_internal_face_edge) =>
    \A ring \in Rings :
      Cardinality(Transitions(ring)) = 2 =>
        \A o \in InternalFaces(ring) :
          /\ o.status = "ok"
          /\ Len(o.faces) = 2
          /\ LET arc1 == WithoutEdgeVertex(o.faces[1])
                 arc2 == WithoutEdgeVertex(o.faces[2])
             IN /\ IsArcBetweenTransitions(arc1, ring)
                /\ IsArcBetweenTransitions(arc2, ring)
                /\ Len(arc1) + Len(arc2) = Len(ring)
                /\ Range(arc1) \cup Range(arc2) = cells_for_edge

\* What the step for an external edge can store, over every order in which
\* int_unordered_set_next can hand out the cells of the edge.
ExternalFacesOverOrders ==
  UNION {ExternalFace(order) : order \in Orderings(cells_for_edge)}

\* The nodes the closure loop can give the next dual face index to.
NextClosureNodes == {node \in closure_pending : node \notin model_edge_nodes}

\* C12: the connectivity built is a function of the mesh and the tag lists:
\* the face stored for an external edge is the same for every iteration
\* order of its cell set, the node that gets the next closure face index
\* does not depend on the iteration order of model_face_nodes, and no
\* emitted node list or offset holds an indeterminate value.
C12_IterationOrderIndependent ==
  /\ (AtEdge /\ is_external_face_edge) =>
       Cardinality(ExternalFacesOverOrders) = 1
  /\ pc = "closure" => Cardinality(NextClosureNodes) <= 1
  /\ \A f \in EmittedFaces :
       /\ Uninit \notin Range(nodes_for_dual_face[f])
       /\ face_node_offsets[f + 1] # Uninit

\* CountEntities has run (mesh_new has been called).
Counted == pc \notin {"classify", "incidence", "count"}

\* C13: on the stellated tetrahedron with one exterior face tagged the
\* construction does not stop with an error, counts exactly 4 dual cells,
\* generates one dual vertex per sub-tetrahedron, and stores for each edge
\* of the tagged face a dual face whose two ends are the two tetrahedra
\* sharing that edge.
C13_StellatedTet ==
  /\ pc \notin {"fatal", "ub"}
  /\ Counted => num_dual_cells = 4
  /\ VerticesGenerated =>
       Cardinality({d \in DOMAIN dual_nodes : dual_nodes[d].kind = "cell"})
         = TM.num_cells
  /\ \A f \in EmittedFaces :
       (IsEdgeFace(f) /\ face_origin[f][2] \in external_model_face_edges)
       => LET path == nodes_for_dual_face[f]
          IN /\ path # <<>>
             /\ path[1] # LastOf(path)
             /\ {path[1], LastOf(path)}
                  = primal_cells_for_edge[face_origin[f][2] + 1]

\* C14: after vertex generation, dual node c is computed from the
\* tetrahedron of primal cell c, for every primal cell c.
C14_CellVertexFromOwnTet ==
  VerticesGenerated =>
    \A c \in 0..(TM.num_cells - 1) : IsDualNodeOf(c, "cell", c)

\* C15: for an edge of a tagged external face, whatever the order in which
\* its cells are met, the scan of lines 394-407 selects two endpoints: two
\* different positions, each that of an incident cell that is an external
\* boundary tet.
C15_TwoDistinctEndpoints ==
  (AtEdge /\ is_external_face_edge) =>
    \A order \in Orderings(cells_for_edge) :
      LET ends == EndpointIndices(order)
      IN /\ ends[1] \in 0..(Len(order) - 1)
         /\ ends[2] \in 0..(Len(order) - 1)
         /\ ends[1] # ends[2]
         /\ order[ends[1] + 1] \in external_boundary_tets
         /\ order[ends[2] + 1] \in external_boundary_tets

\* C16: for an edge of a tagged external face with more than 3 incident
\* cells, every face the step stores holds in its places 1..|C|-2 (counted
\* from 0) exactly the cells that are not endpoints, each once, and neither
\* endpoint.
C16_TweenersBetweenEndpoints ==
  (AtEdge /\ is_external_face_edge /\ Cardinality(cells_for_edge) > 3) =>
    \A order \in Orderings(cells_for_edge) :
      \A o \in ExternalFace(order) :
        o.status = "ok" =>
          LET n == Len(order)
              ends == EndpointIndices(order)
              endpoints == {order[ends[1] + 1], order[ends[2] + 1]}
              path == o.faces[1]
          IN /\ Len(path) >= n
             /\ {path[i] : i \in 2..(n - 1)} = cells_for_edge \ endpoints
             /\ path[1] \in endpoints
             /\ path[n] \in endpoints \ {path[1]}

\* C17: for an edge of a tagged internal face whose ring of incident cells
\* does not have exactly two transitions, the step ends the construction
\* with the fatal error.
C17_FatalWithoutTwoTransitions ==
  (AtEdge /\ ~is_external_face_edge /\ is_internal_face_edge) =>
    \A ring \in Rings :
      Cardinality(Transitions(ring)) # 2 =>
        \A o \in InternalFaces(ring) : o.status = "fatal"

\* C18: for an edge on no tagged external and no tagged internal face, the
\* step emits exactly one dual face; its node list holds exactly the dual
\* vertices (the indices) of the cells incident to the edge, each once, and
\* no dual vertex of the edge, tagged model edge or not.
C18_InteriorEdgeFace ==
  (AtEdge /\ ~is_external_face_edge /\ ~is_internal_face_edge) =>
    \A ordering \in polygon_ordering(Cardinality(cells_for_edge)) :
      LET o == InteriorFace(ordering)
      IN /\ Len(o.faces) = 1
         /\ Len(o.faces[1]) = Cardinality(cells_for_edge)
         /\ Range(o.faces[1]) = cells_for_edge

\* C19: for a node of a tagged face that is no node of a model edge, the
\* closure step emits one dual face whose node list holds exactly the dual
\* vertices generated for the tagged faces incident to the node, each once.
C19_ClosureFaceNodes ==
  pc = "closure" =>
    \A node \in NextClosureNodes :
      LET bfaces == primal_boundary_faces_for_node[node + 1]
      IN \A ordering \in polygon_ordering(Cardinality(bfaces)) :
           LET o == ClosureFace(ordering)
           IN /\ Len(o.faces) = 1
              /\ Len(o.faces[1]) = Cardinality(bfaces)
              /\ \A f \in bfaces : MapHas(dual_node_for_model_face, f)
              /\ Range(o.faces[1]) =
                   {MapGet(dual_node_for_model_face, f) : f \in bfaces}

\* The outcomes the step about to run can store: of the edge pass at the
\* current edge, or of the closure pass at any node it may visit next.
NextOutcomes ==
  IF AtEdge /\ is_external_face_edge
    THEN UNION {ExternalFace(order) : order \in Orderings(cells_for_edge)}
  ELSE IF AtEdge /\ is_internal_face_edge
    THEN UNION {InternalFaces(ring) : ring \in Rings}
  ELSE IF AtEdge
    THEN {InteriorFace(ordering) :
            ordering \in polygon_ordering(Cardinality(cells_for_edge))}
  ELSE IF pc = "closure" /\ NextClosureNodes # {}
    THEN {ClosureFace(ordering) :
            ordering \in UNION {polygon_ordering(Cardinality(
                                  primal_boundary_faces_for_node[node + 1])) :
                                node \in NextClosureNodes}}
  ELSE {}

\* C20: every store into nodes_for_dual_face uses a slot f with
\* 0 <= f < num_dual_faces and every store into face_node_offsets an entry
\* f <= num_dual_faces, in the edge pass and in the closure pass; the slots
\* filled so far are exactly 0..df_offset-1, so the next store fills a new
\* slot.
C20_FaceSlotsInBounds ==
  /\ df_offset >= 0
  /\ pc \in {"edges", "closure"} => Len(nodes_for_dual_face) = df_offset
  /\ \A o \in NextOutcomes : SlotsInBounds(o)

====
